---- MODULE Spec2Model ----
(***************************************************************************)
(* count_event_multiplicity.py: threshold a grayscale TIFF image, label    *)
(* its connected regions, list the region sizes ("multiplicities"), and    *)
(* report the mean and the standard error of the mean over a folder.       *)
(*                                                                         *)
(* Three specifications share one state machine:                           *)
(*   SpecCount  one call of count_multiplicity(image_path, threshold)      *)
(*   SpecStats  one call of average_multiplicity_with_error(lists)         *)
(*   Spec       one run of the __main__ block over a folder                *)
(*                                                                         *)
(* Numbers: numpy's float64 results are modelled as exact values, a        *)
(* rational, the square root of a rational, or NaN / Inf for x/0; rounding *)
(* to 53 bits is not modelled.                                             *)
(***************************************************************************)
EXTENDS Integers, Sequences, FiniteSets, TLC

VARIABLES
    folder,                   \* the *.tiff files of the folder, in glob order: their contents
    threshold_value,          \* the threshold of the run
    pc,                       \* position of the program
    image_paths,              \* process_images_in_folder: result of glob (indices into folder)
    i,                        \* process_images_in_folder: position of the comprehension
    acc,                      \* process_images_in_folder: the list the comprehension is building
    loaded,                   \* the paths tiff.imread has been called on, in order
    image,                    \* count_multiplicity: local image
    binary_image,             \* count_multiplicity: local binary_image
    labeled_image,            \* count_multiplicity: local labeled_image
    multiplicity_counts,      \* count_multiplicity: local multiplicity_counts
    all_multiplicities,       \* __main__: all_multiplicities / the statistics call's argument
    flattened_multiplicities, \* average_multiplicity_with_error: local
    avg_multiplicity,         \* average_multiplicity_with_error: local
    std_dev,                  \* average_multiplicity_with_error: local
    rcount,                   \* divisor n - ddof used inside np.std
    n,                        \* average_multiplicity_with_error: local
    sem,                      \* average_multiplicity_with_error: local
    stats,                    \* the pair returned by average_multiplicity_with_error
    k,                        \* __main__: position of the printing loop
    output,                   \* the lines printed so far
    entry,                    \* the function the run entered the program by
    raised                    \* the exception that ended the program, if any

vars == <<folder, threshold_value, pc, image_paths, i, acc, loaded, image,
          binary_image, labeled_image, multiplicity_counts, all_multiplicities,
          flattened_multiplicities, avg_multiplicity, std_dev, rcount, n, sem,
          stats, k, output, entry, raised>>

countVars == <<image, binary_image, labeled_image, multiplicity_counts>>
statVars  == <<flattened_multiplicities, avg_multiplicity, std_dev, rcount, n, sem, stats>>

(***************************************************************************)
(* Bounds of the model.                                                    *)
(***************************************************************************)
GridH    == 3      \* rows of a 2D image
GridW    == 3      \* columns of a 2D image
MaxLit   == 3      \* non-zero pixels of an image (event images are sparse)
MaxVal   == 1      \* largest pixel intensity
MaxFiles == 3      \* files of a folder
MaxLists == 2      \* per-image lists handed to the statistics
MaxRegions == 2    \* regions per list handed to the statistics
MaxArea  == 2      \* largest region size handed to the statistics

\* A local variable that has no value yet, and one that has.
None    == <<>>
Some(v) == <<v>>
Val(o)  == o[1]

(***************************************************************************)
(* Images.  An array is its number of dimensions and its pixels, a         *)
(* function from index tuples to intensities.                              *)
(***************************************************************************)
Cells == (0 .. GridH - 1) \X (0 .. GridW - 1)

LitSets == {S \in SUBSET Cells : Cardinality(S) <= MaxLit}

Image2D(S, v) == [ndim |-> 2, pix |-> [p \in Cells |-> IF p \in S THEN v[p] ELSE 0]]

\* Arrays that are not 2D: a 1D row and a 3D stack of two 1x1 pages.
Row1D   == [ndim |-> 1, pix |-> [p \in {<<0>>, <<1>>} |-> p[1]]]
Stack3D == [ndim |-> 3, pix |-> [p \in {<<0, 0, 0>>, <<1, 0, 0>>} |-> 1]]
NonPlanar == {Row1D, Stack3D}

Thresholds == (0 - 1) .. (MaxVal + 1)

(***************************************************************************)
(* count_multiplicity                                                      *)
(***************************************************************************)
\* variant: only arrays of fewer than two dimensions are rejected
NdimOkLoose(img) == img.ndim >= 2
\* line 22: image.ndim != 2 is false
NdimOk(img) == img.ndim = 2

\* variants: the comparison turned around, and the comparison made strict
ThresholdInverted(img, t) == [p \in DOMAIN img.pix |-> img.pix[p] <= t]
ThresholdStrict(img, t) == [p \in DOMAIN img.pix |-> img.pix[p] > t]
\* line 26: image >= threshold_value, element by element
Threshold(img, t) == [p \in DOMAIN img.pix |-> img.pix[p] >= t]

\* line 29: connectivity=2
Connectivity == 2

Abs(x) == IF x < 0 THEN 0 - x ELSE x

\* variant: connectivity=1, neighbours across an edge only
AdjacentEdgeOnly(p, q) ==
    /\ p # q
    /\ \A d \in DOMAIN p : Abs(p[d] - q[d]) <= 1
    /\ Cardinality({d \in DOMAIN p : p[d] # q[d]}) <= 1
\* skimage neighbourhood: at most `connectivity` orthogonal hops of one step
Adjacent(p, q) ==
    /\ p # q
    /\ \A d \in DOMAIN p : Abs(p[d] - q[d]) <= 1
    /\ Cardinality({d \in DOMAIN p : p[d] # q[d]}) <= Connectivity

\* raster (C) order of index tuples
RECURSIVE RasterLessFrom(_, _, _)
RasterLessFrom(p, q, d) ==
    IF d > Len(p) THEN FALSE
    ELSE IF p[d] # q[d] THEN p[d] < q[d]
    ELSE RasterLessFrom(p, q, d + 1)
RasterLess(p, q) == RasterLessFrom(p, q, 1)
RasterMin(S) == CHOOSE p \in S : \A q \in S : p = q \/ RasterLess(p, q)

\* the pixels of F reached from the pixels of S through neighbours
RECURSIVE Grow(_, _)
Grow(F, S) ==
    LET N == {p \in F \ S : \E q \in S : Adjacent(p, q)}
    IN  IF N = {} THEN S ELSE Grow(F, S \cup N)

\* labels 1, 2, ... in raster order of each region's first pixel; background 0
RECURSIVE LabelRest(_, _, _)
LabelRest(F, lab, next) ==
    IF F = {} THEN lab
    ELSE LET C == Grow(F, {RasterMin(F)})
         IN  LabelRest(F \ C, [p \in DOMAIN lab |-> IF p \in C THEN next ELSE lab[p]], next + 1)
Label(bin) ==
    LabelRest({p \in DOMAIN bin : bin[p]}, [p \in DOMAIN bin |-> 0], 1)

\* line 32: [region.area for region in regionprops(labeled_image)]
MaxLabel(lab) ==
    IF DOMAIN lab = {} THEN 0
    ELSE CHOOSE m \in {lab[p] : p \in DOMAIN lab} : \A p \in DOMAIN lab : lab[p] <= m
RegionAreas(lab) ==
    [l \in 1 .. MaxLabel(lab) |-> Cardinality({p \in DOMAIN lab : lab[p] = l})]

(***************************************************************************)
(* Exact arithmetic for np.mean, np.std and np.sqrt.                       *)
(* A value is [kind, num, den]: "rat" is num/den in lowest terms,          *)
(* "sqrt" is the square root of num/den (kept only when it is irrational), *)
(* "nan" is the result of 0/0 and "inf" the result of x/0 for x > 0.       *)
(***************************************************************************)
RECURSIVE GCD(_, _)
GCD(a, b) == IF b = 0 THEN a ELSE GCD(b, a % b)

NaN == [kind |-> "nan", num |-> 0, den |-> 0]
Inf == [kind |-> "inf", num |-> 1, den |-> 0]

\* a / b for integers a and b, b > 0
Rat(a, b) ==
    LET g == GCD(Abs(a), b)
    IN  [kind |-> "rat", num |-> a \div g, den |-> b \div g]
Whole(a) == Rat(a, 1)

RSub(x, y) == Rat(x.num * y.den - y.num * x.den, x.den * y.den)
RAdd(x, y) == Rat(x.num * y.den + y.num * x.den, x.den * y.den)
RMul(x, y) == Rat(x.num * y.num, x.den * y.den)

\* x / c for a rational x >= 0 and an integer c >= 0, as numpy divides floats
RDivInt(x, c) ==
    IF x.kind # "rat" THEN x
    ELSE IF c = 0 THEN (IF x.num = 0 THEN NaN ELSE Inf)
    ELSE Rat(x.num, x.den * c)

IsSquare(m) == \E r \in 0 .. m : r * r = m
Root(m) == CHOOSE r \in 0 .. m : r * r = m

\* np.sqrt of a value >= 0
Sqrt(x) ==
    IF x.kind # "rat" THEN x
    ELSE IF IsSquare(x.num) /\ IsSquare(x.den) THEN Rat(Root(x.num), Root(x.den))
    ELSE [kind |-> "sqrt", num |-> x.num, den |-> x.den]

\* the number whose square root a value >= 0 is
Square(x) == IF x.kind = "sqrt" THEN Rat(x.num, x.den) ELSE IF x.kind = "rat" THEN RMul(x, x) ELSE x

\* x / y for values x >= 0 and y > 0
Quot(x, y) ==
    IF x.kind \in {"nan", "inf"} THEN x
    ELSE LET a == Square(x)
             b == Square(y)
         IN  Sqrt(Rat(a.num * b.den, a.den * b.num))

RECURSIVE SumSeq(_)
SumSeq(s) == IF s = <<>> THEN 0 ELSE Head(s) + SumSeq(Tail(s))

RECURSIVE RSumSeq(_)
RSumSeq(s) == IF s = <<>> THEN Whole(0) ELSE RAdd(Head(s), RSumSeq(Tail(s)))

\* line 71: [multiplicity for sublist in all_multiplicities for multiplicity in sublist]
RECURSIVE Flatten(_)
Flatten(ll) == IF ll = <<>> THEN <<>> ELSE Head(ll) \o Flatten(Tail(ll))

\* line 74: np.mean of a non-empty list
Mean(s) == Rat(SumSeq(s), Len(s))

\* line 76: ddof=1
Ddof == 1

\* variant: ddof=0, the population standard deviation
DivisorPopulation(s) == Len(s)
\* np.std's divisor: max(n - ddof, 0)
Divisor(s) == IF Len(s) - Ddof > 0 THEN Len(s) - Ddof ELSE 0

\* line 76: np.std(s, ddof): sqrt(sum((x - mean)^2) / max(n - ddof, 0))
Std(s) ==
    LET m  == Mean(s)
        sq == [j \in 1 .. Len(s) |-> RMul(RSub(Whole(s[j]), m), RSub(Whole(s[j]), m))]
    IN  Sqrt(RDivInt(RSumSeq(sq), Divisor(s)))

(***************************************************************************)
(* Inputs.                                                                 *)
(***************************************************************************)
SeqsUpTo(S, m) == UNION {[1 .. j -> S] : j \in 0 .. m}

Lit(S) == Image2D(S, [p \in S |-> 1])

\* the files a folder is filled from: a blank frame, one event of one pixel,
\* one event of two pixels touching at a corner, two events, and a 3D stack
BlankFrame   == Lit({})
OnePixel     == Lit({<<0, 0>>})
DiagonalPair == Lit({<<0, 0>>, <<1, 1>>})
TwoEvents    == Lit({<<0, 0>>, <<0, 2>>})
Disk == {BlankFrame, OnePixel, DiagonalPair, TwoEvents, Stack3D}

\* the lists the statistics are called on, and the batch of spec section 8
ExampleBatch == <<(<<2, 3>>), (<<5>>)>>
Batches == SeqsUpTo(SeqsUpTo(1 .. MaxArea, MaxRegions), MaxLists) \cup {ExampleBatch}

\* line 92: threshold_value = 1
MainThreshold == 1

Line(kind, text) == [kind |-> kind, text |-> text]

InitLocals ==
    /\ image_paths = None
    /\ i = 0
    /\ acc = None
    /\ loaded = <<>>
    /\ image = None
    /\ binary_image = None
    /\ labeled_image = None
    /\ multiplicity_counts = None
    /\ flattened_multiplicities = None
    /\ avg_multiplicity = None
    /\ std_dev = None
    /\ rcount = None
    /\ n = None
    /\ sem = None
    /\ stats = None
    /\ k = 0
    /\ output = <<>>
    /\ raised = None

\* count_multiplicity(image_path, threshold_value) called on one file
InitCount ==
    /\ \/ \E S \in LitSets : \E v \in [S -> 1 .. MaxVal] : folder = <<Image2D(S, v)>>
       \/ \E img \in NonPlanar : folder = <<img>>
    /\ threshold_value \in Thresholds
    /\ entry = "count_multiplicity"
    /\ pc = "imread"
    /\ all_multiplicities = None
    /\ InitLocals

\* average_multiplicity_with_error(all_multiplicities) called on any lists
InitStats ==
    /\ folder = <<>>
    /\ threshold_value = MainThreshold
    /\ entry = "average_multiplicity_with_error"
    /\ pc = "flatten"
    /\ all_multiplicities \in {Some(b) : b \in Batches}
    /\ InitLocals

\* the __main__ block, started on any folder
Init ==
    /\ folder \in SeqsUpTo(Disk, MaxFiles)
    /\ threshold_value = None
    /\ entry = "__main__"
    /\ pc = "input"
    /\ all_multiplicities = None
    /\ InitLocals

(***************************************************************************)
(* count_multiplicity, lines 19-34                                         *)
(***************************************************************************)
\* line 19: image = tiff.imread(image_path)
Imread ==
    /\ pc = "imread"
    /\ image' = Some(folder[IF entry = "__main__" THEN Val(image_paths)[i] ELSE 1])
    /\ loaded' = Append(loaded, IF entry = "__main__" THEN Val(image_paths)[i] ELSE 1)
    /\ pc' = "check"
    /\ UNCHANGED <<folder, threshold_value, image_paths, i, acc, binary_image,
                   labeled_image, multiplicity_counts, all_multiplicities, statVars,
                   k, output, entry, raised>>

\* variant: a run over a folder skips the file instead of ending
RaiseValueErrorSkipImage ==
    /\ pc = "check"
    /\ ~NdimOk(Val(image))
    /\ IF entry = "__main__"
       THEN i' = i + 1 /\ image' = None /\ pc' = "next_image" /\ raised' = raised
       ELSE i' = i /\ image' = image /\ pc' = "crashed" /\ raised' = Some("ValueError")
    /\ UNCHANGED <<folder, threshold_value, image_paths, acc, loaded, binary_image,
                   labeled_image, multiplicity_counts, all_multiplicities, statVars,
                   k, output, entry>>
\* lines 22-23: raise ValueError; no caller catches it, the program ends
RaiseValueError ==
    /\ pc = "check"
    /\ ~NdimOk(Val(image))
    /\ raised' = Some("ValueError")
    /\ pc' = "crashed"
    /\ UNCHANGED <<folder, threshold_value, image_paths, i, acc, loaded, countVars,
                   all_multiplicities, statVars, k, output, entry>>

\* line 26: binary_image = image >= threshold_value
ApplyThreshold ==
    /\ pc = "check"
    /\ NdimOk(Val(image))
    /\ binary_image' = Some(Threshold(Val(image), threshold_value))
    /\ pc' = "label"
    /\ UNCHANGED <<folder, threshold_value, image_paths, i, acc, loaded, image,
                   labeled_image, multiplicity_counts, all_multiplicities, statVars,
                   k, output, entry, raised>>

\* line 29: labeled_image = label(binary_image, connectivity=2)
LabelRegions ==
    /\ pc = "label"
    /\ labeled_image' = Some(Label(Val(binary_image)))
    /\ pc' = "regionprops"
    /\ UNCHANGED <<folder, threshold_value, image_paths, i, acc, loaded, image,
                   binary_image, multiplicity_counts, all_multiplicities, statVars,
                   k, output, entry, raised>>

\* line 32: multiplicity_counts = [region.area for region in regionprops(labeled_image)]
MeasureRegions ==
    /\ pc = "regionprops"
    /\ multiplicity_counts' = Some(RegionAreas(Val(labeled_image)))
    /\ pc' = "return"
    /\ UNCHANGED <<folder, threshold_value, image_paths, i, acc, loaded, image,
                   binary_image, labeled_image, all_multiplicities, statVars,
                   k, output, entry, raised>>

\* line 34: return multiplicity_counts, to the caller of the run or into the
\* comprehension of line 54
ReturnCounts ==
    /\ pc = "return"
    /\ IF entry = "__main__"
       THEN /\ acc' = Some(Append(Val(acc), Val(multiplicity_counts)))
            /\ i' = i + 1
            /\ image' = None
            /\ binary_image' = None
            /\ labeled_image' = None
            /\ multiplicity_counts' = None
            /\ pc' = "next_image"
       ELSE /\ pc' = "done"
            /\ UNCHANGED <<acc, i, countVars>>
    /\ UNCHANGED <<folder, threshold_value, image_paths, loaded, all_multiplicities,
                   statVars, k, output, entry, raised>>

(***************************************************************************)
(* process_images_in_folder, lines 48-56                                   *)
(***************************************************************************)
\* line 48: image_paths = glob(os.path.join(folder_path, "*.tiff"))
Glob ==
    /\ pc = "glob"
    /\ image_paths' = Some([j \in 1 .. Len(folder) |-> j])
    /\ pc' = "if_paths"
    /\ UNCHANGED <<folder, threshold_value, i, acc, loaded, countVars,
                   all_multiplicities, statVars, k, output, entry, raised>>

\* variant: no test of image_paths, the comprehension runs over no path
NoFilesUnguarded ==
    /\ pc = "if_paths"
    /\ Val(image_paths) = <<>>
    /\ acc' = Some(<<>>)
    /\ i' = 1
    /\ pc' = "next_image"
    /\ UNCHANGED <<folder, threshold_value, image_paths, loaded, countVars,
                   all_multiplicities, statVars, k, output, entry, raised>>
\* lines 50-52: print the notice and return [] to line 95
NoFiles ==
    /\ pc = "if_paths"
    /\ Val(image_paths) = <<>>
    /\ output' = Append(output, Line("notice", "No TIFF files found in folder"))
    /\ all_multiplicities' = Some(<<>>)
    /\ pc' = "main_if"
    /\ UNCHANGED <<folder, threshold_value, image_paths, i, acc, loaded, countVars,
                   statVars, k, entry, raised>>

\* line 54: the comprehension starts
StartImages ==
    /\ pc = "if_paths"
    /\ Val(image_paths) # <<>>
    /\ acc' = Some(<<>>)
    /\ i' = 1
    /\ pc' = "next_image"
    /\ UNCHANGED <<folder, threshold_value, image_paths, loaded, countVars,
                   all_multiplicities, statVars, k, output, entry, raised>>

\* line 54: count_multiplicity(image_path, threshold_value) for the next path
NextImage ==
    /\ pc = "next_image"
    /\ i <= Len(Val(image_paths))
    /\ pc' = "imread"
    /\ UNCHANGED <<folder, threshold_value, image_paths, i, acc, loaded, countVars,
                   all_multiplicities, statVars, k, output, entry, raised>>

\* line 56: return all_multiplicities, to line 95
ReturnAll ==
    /\ pc = "next_image"
    /\ i > Len(Val(image_paths))
    /\ all_multiplicities' = acc
    /\ pc' = "main_if"
    /\ UNCHANGED <<folder, threshold_value, image_paths, i, acc, loaded, countVars,
                   statVars, k, output, entry, raised>>

(***************************************************************************)
(* average_multiplicity_with_error, lines 71-85                            *)
(***************************************************************************)
\* line 71
FlattenLists ==
    /\ pc = "flatten"
    /\ flattened_multiplicities' = Some(Flatten(Val(all_multiplicities)))
    /\ pc' = "if_flattened"
    /\ UNCHANGED <<folder, threshold_value, image_paths, i, acc, loaded, countVars,
                   all_multiplicities, avg_multiplicity, std_dev, rcount, n, sem, stats,
                   k, output, entry, raised>>

\* lines 73-74: avg_multiplicity = np.mean(flattened_multiplicities)
TakeMean ==
    /\ pc = "if_flattened"
    /\ Val(flattened_multiplicities) # <<>>
    /\ avg_multiplicity' = Some(Mean(Val(flattened_multiplicities)))
    /\ pc' = "std"
    /\ UNCHANGED <<folder, threshold_value, image_paths, i, acc, loaded, countVars,
                   all_multiplicities, flattened_multiplicities, std_dev, rcount, n, sem,
                   stats, k, output, entry, raised>>

\* line 76: std_dev = np.std(flattened_multiplicities, ddof=1)
TakeStd ==
    /\ pc = "std"
    /\ rcount' = Some(Divisor(Val(flattened_multiplicities)))
    /\ std_dev' = Some(Std(Val(flattened_multiplicities)))
    /\ pc' = "sem"
    /\ UNCHANGED <<folder, threshold_value, image_paths, i, acc, loaded, countVars,
                   all_multiplicities, flattened_multiplicities, avg_multiplicity, n, sem,
                   stats, k, output, entry, raised>>

\* lines 78-80: n = len(flattened_multiplicities); sem = std_dev / np.sqrt(n)
TakeSem ==
    /\ pc = "sem"
    /\ n' = Some(Len(Val(flattened_multiplicities)))
    /\ sem' = Some(Quot(Val(std_dev), Sqrt(Whole(Len(Val(flattened_multiplicities))))))
    /\ pc' = "return_stats"
    /\ UNCHANGED <<folder, threshold_value, image_paths, i, acc, loaded, countVars,
                   all_multiplicities, flattened_multiplicities, avg_multiplicity, std_dev,
                   rcount, stats, k, output, entry, raised>>

\* variant: no test of the flattened list, np.mean and np.std of no value
NoClustersUnguarded ==
    /\ pc = "if_flattened"
    /\ Val(flattened_multiplicities) = <<>>
    /\ avg_multiplicity' = Some(NaN)
    /\ sem' = Some(NaN)
    /\ pc' = "return_stats"
    /\ UNCHANGED <<folder, threshold_value, image_paths, i, acc, loaded, countVars,
                   all_multiplicities, flattened_multiplicities, std_dev, rcount, n,
                   stats, k, output, entry, raised>>
\* lines 81-83: avg_multiplicity = 0; sem = 0
NoClusters ==
    /\ pc = "if_flattened"
    /\ Val(flattened_multiplicities) = <<>>
    /\ avg_multiplicity' = Some(Whole(0))
    /\ sem' = Some(Whole(0))
    /\ pc' = "return_stats"
    /\ UNCHANGED <<folder, threshold_value, image_paths, i, acc, loaded, countVars,
                   all_multiplicities, flattened_multiplicities, std_dev, rcount, n,
                   stats, k, output, entry, raised>>

\* line 85: return avg_multiplicity, sem, to the caller of the run or to line 98
ReturnStats ==
    /\ pc = "return_stats"
    /\ stats' = Some(<<Val(avg_multiplicity), Val(sem)>>)
    /\ IF entry = "__main__"
       THEN pc' = "print_images" /\ k' = 1
       ELSE pc' = "done" /\ k' = k
    /\ UNCHANGED <<folder, threshold_value, image_paths, i, acc, loaded, countVars,
                   all_multiplicities, flattened_multiplicities, avg_multiplicity, std_dev,
                   rcount, n, sem, output, entry, raised>>

(***************************************************************************)
(* __main__, lines 95-109                                                  *)
(***************************************************************************)
\* lines 90-92: input() writes its prompt and reads the path; threshold_value = 1
ReadInput ==
    /\ pc = "input"
    /\ output' = Append(output, Line("prompt", "Enter the folder path containing TIFF images: "))
    /\ threshold_value' = MainThreshold
    /\ pc' = "glob"
    /\ UNCHANGED <<folder, image_paths, i, acc, loaded, countVars, all_multiplicities,
                   statVars, k, entry, raised>>

\* lines 97-98: all_multiplicities is not empty
MainSummarize ==
    /\ pc = "main_if"
    /\ Val(all_multiplicities) # <<>>
    /\ pc' = "flatten"
    /\ UNCHANGED <<folder, threshold_value, image_paths, i, acc, loaded, countVars,
                   all_multiplicities, statVars, k, output, entry, raised>>

\* variant: no else branch
MainNoImagesSilent ==
    /\ pc = "main_if"
    /\ Val(all_multiplicities) = <<>>
    /\ pc' = "done"
    /\ UNCHANGED <<folder, threshold_value, image_paths, i, acc, loaded, countVars,
                   all_multiplicities, statVars, k, output, entry, raised>>
\* lines 108-109: print("No images processed.")
MainNoImages ==
    /\ pc = "main_if"
    /\ Val(all_multiplicities) = <<>>
    /\ output' = Append(output, Line("notice", "No images processed."))
    /\ pc' = "done"
    /\ UNCHANGED <<folder, threshold_value, image_paths, i, acc, loaded, countVars,
                   all_multiplicities, statVars, k, entry, raised>>

\* lines 100-104: the four lines of one image
PrintImage ==
    /\ pc = "print_images"
    /\ k <= Len(Val(all_multiplicities))
    /\ output' = output \o << Line("image", "Image"),
                              Line("image", "Multiplicities"),
                              Line("image", "Number of clusters"),
                              Line("image", "Average Multiplicity") >>
    /\ k' = k + 1
    /\ UNCHANGED <<folder, threshold_value, pc, image_paths, i, acc, loaded, countVars,
                   all_multiplicities, statVars, entry, raised>>

\* lines 106-107: the two lines of the batch
PrintOverall ==
    /\ pc = "print_images"
    /\ k > Len(Val(all_multiplicities))
    /\ output' = output \o << Line("overall", "Overall Average Multiplicity across all images"),
                              Line("overall", "Standard Error of the Mean (SEM)") >>
    /\ pc' = "done"
    /\ UNCHANGED <<folder, threshold_value, image_paths, i, acc, loaded, countVars,
                   all_multiplicities, statVars, k, entry, raised>>

NextCount ==
    \/ Imread
    \/ RaiseValueError
    \/ ApplyThreshold
    \/ LabelRegions
    \/ MeasureRegions
    \/ ReturnCounts

NextStats ==
    \/ FlattenLists
    \/ TakeMean
    \/ TakeStd
    \/ TakeSem
    \/ NoClusters
    \/ ReturnStats

Next ==
    \/ ReadInput
    \/ Glob
    \/ NoFiles
    \/ StartImages
    \/ NextImage
    \/ ReturnAll
    \/ MainSummarize
    \/ MainNoImages
    \/ PrintImage
    \/ PrintOverall
    \/ NextCount
    \/ NextStats

SpecCount == InitCount /\ [][NextCount]_vars
SpecStats == InitStats /\ [][NextStats]_vars
Spec == Init /\ [][Next]_vars

(***************************************************************************)
(* Properties.                                                             *)
(***************************************************************************)
\* the cells of the loaded image whose intensity reaches the threshold
Foreground == {p \in DOMAIN Val(image).pix : Val(image).pix[p] >= threshold_value}
Background == DOMAIN Val(image).pix \ Foreground

\* two cells of a 2D grid share an edge or a corner
Touch(p, q) == p # q /\ Abs(p[1] - q[1]) <= 1 /\ Abs(p[2] - q[2]) <= 1
CornerOnly(p, q) == Abs(p[1] - q[1]) = 1 /\ Abs(p[2] - q[2]) = 1

\* the cells of F linked to a cell of S by a chain of touching cells of F
RECURSIVE Chain(_, _)
Chain(F, S) ==
    LET N == {p \in F \ S : \E q \in S : Touch(p, q)}
    IN  IF N = {} THEN S ELSE Chain(F, S \cup N)

AllZero(img) == \A p \in DOMAIN img.pix : img.pix[p] = 0

\* C1: the region sizes count every cell with intensity >= threshold exactly
\* once and no other cell: a cell has a region label iff it is foreground
\* (a cell equal to the threshold included), each returned size is the number
\* of cells of one label, and the sizes sum to the number of foreground cells.
C1_SumIsForegroundCount ==
    /\ labeled_image # None =>
          /\ \A p \in Foreground : Val(labeled_image)[p] >= 1
          /\ \A p \in Background : Val(labeled_image)[p] = 0
    /\ multiplicity_counts # None =>
          LET F      == Foreground
              lab    == Val(labeled_image)
              counts == Val(multiplicity_counts)
          IN  /\ SumSeq(counts) = Cardinality(F)
              /\ \A l \in DOMAIN counts : counts[l] = Cardinality({p \in F : lab[p] = l})
              /\ \A p \in F : lab[p] \in DOMAIN counts

\* a finished call with a cell equal to the threshold, a cell below it and
\* two regions
C1_Witness ==
    /\ pc = "done"
    /\ \E p \in Foreground : Val(image).pix[p] = threshold_value
    /\ Background # {}
    /\ Len(Val(multiplicity_counts)) = 2

\* C2: the regions are the maximal 8-connected groups of foreground cells:
\* foreground cells sharing an edge or only a corner carry the same label,
\* cells of one label are linked by a chain of touching foreground cells
\* (all of them to one cell of the label, hence to each other), and the 3x3
\* grid lit at (0,0) and (1,1) with threshold 1 returns [2].
C2_EightConnected ==
    /\ (labeled_image # None /\ NdimOk(Val(image))) =>
          LET F   == Foreground
              lab == Val(labeled_image)
          IN  /\ \A p \in F : \A q \in F : Touch(p, q) => lab[p] = lab[q]
              /\ \A l \in {lab[p] : p \in F} :
                    LET region == {p \in F : lab[p] = l}
                        first  == CHOOSE p \in region : TRUE
                    IN  region \subseteq Chain(F, {first})
    /\ (multiplicity_counts # None /\ Val(image) = DiagonalPair /\ threshold_value = 1) =>
          Val(multiplicity_counts) = <<2>>

\* the corner-touching pair of the example, counted as one region of size 2
C2_Witness ==
    /\ pc = "done"
    /\ Val(image) = DiagonalPair
    /\ threshold_value = 1
    /\ \E p \in Foreground : \E q \in Foreground : CornerOnly(p, q)
    /\ Val(multiplicity_counts) = <<2>>

\* C3 as stated: an all-zero grid gives the empty list for every threshold.
C3_EmptyForEveryThreshold ==
    (multiplicity_counts # None /\ AllZero(Val(image))) => Val(multiplicity_counts) = <<>>

\* C3 as amended: an all-zero grid gives the empty list for every threshold
\* greater than 0, and for a threshold of 0 or less all of its cells form a
\* single region; in both cases nothing is raised.
C3_EmptyForPositiveThreshold ==
    (image # None /\ NdimOk(Val(image)) /\ AllZero(Val(image))) =>
       /\ raised = None
       /\ pc # "crashed"
       /\ (multiplicity_counts # None /\ threshold_value > 0) =>
             Val(multiplicity_counts) = <<>>
       /\ (multiplicity_counts # None /\ threshold_value <= 0) =>
             Val(multiplicity_counts) = <<Cardinality(DOMAIN Val(image).pix)>>

\* a finished call on the all-zero grid with a threshold above the default
C3_Witness ==
    /\ pc = "done"
    /\ Val(image) = BlankFrame
    /\ threshold_value = 2
    /\ Val(multiplicity_counts) = <<>>

\* C4: an array that is not 2D ends the call with the ValueError of line 23
\* before anything is thresholded, labelled or measured, and a 2D array never
\* raises.
C4_ShapeCheckedFirst ==
    /\ (image # None /\ Val(image).ndim # 2 /\ pc # "check") =>
          /\ pc = "crashed"
          /\ raised = Some("ValueError")
    /\ (image # None /\ Val(image).ndim # 2) =>
          /\ binary_image = None
          /\ labeled_image = None
          /\ multiplicity_counts = None
    /\ (image # None /\ Val(image).ndim = 2) => (raised = None /\ pc # "crashed")
    /\ raised # None => (image # None /\ Val(image).ndim # 2)

\* the 3D stack was loaded and the call ended with the error
C4_Witness ==
    /\ pc = "crashed"
    /\ Val(image) = Stack3D
    /\ raised = Some("ValueError")
    /\ binary_image = None

\* the notices and the statistics among the lines written so far
IsNotice(l)    == l.kind = "notice"
IsStatistic(l) == l.kind \in {"image", "overall"}
Notices    == SelectSeq(output, IsNotice)
Statistics == SelectSeq(output, IsStatistic)

\* C5: with no *.tiff file, process_images_in_folder prints its notice and
\* returns [] without raising; no image is loaded and count_multiplicity is
\* never entered.
C5_EmptyFolder ==
    folder = <<>> =>
       /\ loaded = <<>>
       /\ image = None
       /\ raised = None
       /\ pc \in {"input", "glob", "if_paths", "main_if", "done"}
       /\ pc \in {"main_if", "done"} =>
             /\ all_multiplicities = Some(<<>>)
             /\ Notices # <<>>
             /\ Notices[1] = Line("notice", "No TIFF files found in folder")

\* process_images_in_folder has returned from a folder without files
C5_Witness ==
    /\ folder = <<>>
    /\ pc = "main_if"
    /\ all_multiplicities = Some(<<>>)
    /\ Len(Notices) = 1

\* C8 as stated: a run that found no files prints exactly one notice.
C8_SingleNotice ==
    (folder = <<>> /\ pc = "done") => Len(Notices) = 1

\* C8 as amended: a run that found no files prints, after the prompt of
\* input(), exactly two notices, the one of process_images_in_folder and then
\* "No images processed." of the entry point, and no statistics.
C8_TwoNotices ==
    /\ folder = <<>> => Statistics = <<>>
    /\ (folder = <<>> /\ pc = "done") =>
          /\ Notices = << Line("notice", "No TIFF files found in folder"),
                          Line("notice", "No images processed.") >>
          /\ Len(output) = 3

\* the run over a folder without files has ended
C8_Witness ==
    /\ folder = <<>>
    /\ pc = "done"
    /\ Len(Notices) = 2

\* the positions of the files that are not 2D
BadFiles == {j \in DOMAIN folder : folder[j].ndim # 2}
FirstBad == CHOOSE j \in BadFiles : \A m \in BadFiles : j <= m

\* C9: a file that is not 2D ends the whole run with the ValueError: the
\* entry point never receives a list, the files after the first failing one
\* are never loaded and no notice or statistic is printed; with no failing
\* file the result has one list per file, in glob order.
C9_FailFast ==
    /\ BadFiles # {} =>
          /\ all_multiplicities = None
          /\ stats = None
          /\ Statistics = <<>>
          /\ Notices = <<>>
          /\ \A j \in DOMAIN loaded : loaded[j] = j /\ j <= FirstBad
          /\ pc \notin {"main_if", "flatten", "if_flattened", "std", "sem", "return_stats",
                        "print_images", "done"}
    /\ pc = "crashed" =>
          /\ BadFiles # {}
          /\ raised = Some("ValueError")
          /\ loaded = [j \in 1 .. FirstBad |-> j]
          /\ Len(Val(acc)) = FirstBad - 1
    /\ (BadFiles = {} /\ all_multiplicities # None) =>
          /\ raised = None
          /\ Len(Val(all_multiplicities)) = Len(folder)
          /\ \A j \in DOMAIN folder :
                Val(all_multiplicities)[j]
                   = RegionAreas(Label(Threshold(folder[j], threshold_value)))

\* the second of three files failed: one list was computed and is lost, the
\* third file was never loaded
C9_Witness ==
    /\ pc = "crashed"
    /\ Len(folder) = 3
    /\ loaded = <<1, 2>>
    /\ Val(acc) = << <<1, 1>> >>
    /\ all_multiplicities = None

\* the number of values and their sums over all lists, list by list
RECURSIVE CountAll(_)
CountAll(ll) == IF ll = <<>> THEN 0 ELSE Len(Head(ll)) + CountAll(Tail(ll))
RECURSIVE SumAll(_)
SumAll(ll) == IF ll = <<>> THEN 0 ELSE SumSeq(Head(ll)) + SumAll(Tail(ll))
RECURSIVE SumSquares(_)
SumSquares(s) == IF s = <<>> THEN 0 ELSE Head(s) * Head(s) + SumSquares(Tail(s))
RECURSIVE SumSquaresAll(_)
SumSquaresAll(ll) == IF ll = <<>> THEN 0 ELSE SumSquares(Head(ll)) + SumSquaresAll(Tail(ll))

\* C6: when every per-image list is empty (no list at all included) the
\* statistics are mean 0 and sem 0, and nothing is raised.
C6_EmptyGivesZero ==
    (\A j \in DOMAIN Val(all_multiplicities) : Val(all_multiplicities)[j] = <<>>) =>
       /\ raised = None
       /\ avg_multiplicity # None => Val(avg_multiplicity) = Whole(0)
       /\ sem # None => Val(sem) = Whole(0)
       /\ stats # None => stats = Some(<<Whole(0), Whole(0)>>)
       /\ pc = "done" => stats # None

\* the call on two empty lists has returned (0, 0)
C6_Witness ==
    /\ pc = "done"
    /\ Val(all_multiplicities) = << <<>>, <<>> >>
    /\ stats = Some(<<Whole(0), Whole(0)>>)

\* C7: with N >= 1 values in all lists together, the mean is their sum over
\* N, and the sem is the square root of (N * sum of squares - (sum)^2) over
\* N^2 * (N - 1), the sample standard deviation with divisor N - 1 over the
\* square root of N (for N = 1 that divisor is 0 and the quotient 0/0); both
\* depend on the lists only through N, the sum and the sum of squares.  The
\* batch [[2,3],[5]] has mean 10/3, not the 15/4 of the per-image averages.
C7_StatisticsOverUnion ==
    LET ll == Val(all_multiplicities)
        N  == CountAll(ll)
        S1 == SumAll(ll)
        S2 == SumSquaresAll(ll)
    IN  /\ (stats # None /\ N >= 1) => Val(stats)[1] = Rat(S1, N)
        /\ (stats # None /\ N >= 2) =>
              /\ Val(stats)[2].kind \in {"rat", "sqrt"}
              /\ Square(Val(stats)[2]) = Rat(N * S2 - S1 * S1, N * N * (N - 1))
        /\ (stats # None /\ N = 1) => Val(stats)[2] = NaN
        /\ (stats # None /\ ll = ExampleBatch) =>
              /\ Val(stats)[1] = Rat(10, 3)
              /\ Val(stats)[1] # Rat(15, 4)
              /\ Square(Val(stats)[2]) = Rat(7, 9)

\* the call on [[2,3],[5]] has returned mean 10/3
C7_Witness ==
    /\ pc = "done"
    /\ Val(all_multiplicities) = ExampleBatch
    /\ Val(stats)[1] = Rat(10, 3)
    /\ Val(stats)[2].kind = "sqrt"

\* C10 as stated: np.std never divides by 0 (its divisor count - 1 is at
\* least 1 whenever it is evaluated) and the returned mean and sem are finite
\* numbers.
C10_NoDivisionByZero ==
    /\ rcount # None => Val(rcount) >= 1
    /\ stats # None =>
          /\ Val(stats)[1].kind \in {"rat", "sqrt"}
          /\ Val(stats)[2].kind \in {"rat", "sqrt"}

====
